---- MODULE Spec2Model ----
(***************************************************************************)
(* Model of the answer-reconciliation and grading pipeline of startupaid   *)
(* (src/startupaid/streamlit_app.py, src/startupaid/grader.py).            *)
(*                                                                         *)
(* Python values are modelled as follows.                                  *)
(*  - a str is a TLA+ string; "+" on str is \o;                            *)
(*  - a JSON scalar whose type matters (a question number, which the       *)
(*    model may return as a number or as a string) is a tagged record      *)
(*    [t, s, n]: JStr(s), JInt(n) or JNone;                                *)
(*  - a dict with optional keys is a function whose DOMAIN is the set of   *)
(*    keys present; d.get(k, dflt) is Get(d, k, dflt);                     *)
(*  - a dict whose insertion order matters (merged_answers) is a sequence  *)
(*    of [k, v] entries with pairwise distinct keys;                       *)
(*  - a collaborator result that must be a list is [isList, items].        *)
(*                                                                         *)
(* Seven specifications share the variables:                               *)
(*   SpecMerge    the page loop of ocr_page followed by merge_ocr_results  *)
(*   SpecPrepare  prepare_grading_data on bounded session contents         *)
(*   Spec         the materials page and grading_page: prepare, the        *)
(*                grading loop (which may be stopped), the store, the      *)
(*                summary                                                  *)
(*   SpecResubmit one graded submission, the way back to the upload pages, *)
(*                new uploads and the grading page again                   *)
(*   SpecLabels   the page loop and the merge on labels with blanks        *)
(*   SpecFailedPages  the page loop and the merge on a PDF with one page   *)
(*                more, with pages whose OCR call fails                    *)
(*   SpecUpload   the runs of the two upload pages: which files are        *)
(*                processed and which are skipped                          *)
(***************************************************************************)
EXTENDS Integers, Sequences, FiniteSets, TLC

VARIABLES
    pc,                  \* position of the running handler
    total_pages,         \* ocr_page: len(pdf_document)
    page_i,              \* ocr_page: pages handled so far by the loop
    all_ocr_results,     \* ocr_page: local list of per-page OCR results
    merged_answers,      \* st.session_state.merged_answers (ordered dict)
    question_paper_json, \* st.session_state.question_paper_json
    grading_scheme_json, \* st.session_state.grading_scheme_json
    user_notes,          \* st.session_state.user_notes
    grading_data,        \* grading_page: result of prepare_grading_data()
    results,             \* grading_page: local list of results
    outcomes,            \* what grade_answer did in each iteration so far; its
                         \* length is the loop index i of line 396
    progress,            \* arguments (i+1) of progress_bar.progress calls
    grading_results,     \* st.session_state.grading_results, [has, v]
    summary,             \* the "Total Score" header of the grading page
    page_errors,         \* ocr_page: the pages with an "Error processing page"
                         \* message (line 140)
    uploaded,            \* the files in the three st.file_uploader widgets
    file_names,          \* st.session_state.current_file_name, qp_file_name,
                         \* gs_file_name
    called               \* the OCR / extraction functions the last run of an
                         \* upload page called

vars == <<pc, total_pages, page_i, all_ocr_results, merged_answers,
          question_paper_json, grading_scheme_json, user_notes, grading_data,
          results, outcomes, progress, grading_results, summary, page_errors,
          uploaded, file_names, called>>

(***************************************************************************)
(* Bounds                                                                  *)
(***************************************************************************)
MaxPages == 2
MaxFragments == 3
MaxQuestions == 2
MaxSchemes == 2

(***************************************************************************)
(* Program constants                                                       *)
(***************************************************************************)
\* question.get("marks", 5)
DefaultMarks == 5

\* the default the question-paper prompt documents: "If marks are not
\* explicitly mentioned, assume a default value of **10**"
DocumentedDefaultMarks == 10

(***************************************************************************)
(* Python values                                                           *)
(***************************************************************************)
JStr(s) == [t |-> "str", s |-> s, n |-> 0]
JInt(n) == [t |-> "int", s |-> "", n |-> n]
JNone == [t |-> "none", s |-> "", n |-> 0]

\* str(v)
PyStr(v) == CASE v.t = "str" -> v.s
              [] v.t = "int" -> ToString(v.n)
              [] OTHER -> "None"

\* str.lower() on the label strings that occur in the model
Lower(s) == CASE s = "Contd" -> "contd"
              [] s = "CONTD" -> "contd"
              [] s = "Unknown" -> "unknown"
              [] s = " Contd " -> " contd "
              [] OTHER -> s

\* str.strip() on the label strings that occur in the model
Strip(s) == CASE s = " 1" -> "1"
              [] s = "2 " -> "2"
              [] s = " Contd " -> "Contd"
              [] OTHER -> s

\* d.get(k, dflt)
Get(d, k, dflt) == IF k \in DOMAIN d THEN d[k] ELSE dflt

\* {**a, **b}
DictMerge(a, b) ==
    [k \in (DOMAIN a) \cup (DOMAIN b) |-> IF k \in DOMAIN b THEN b[k] ELSE a[k]]

\* ordered dict: k in d
OdHas(d, k) == \E j \in 1..Len(d) : d[j].k = k

\* ordered dict: d.get(k, dflt)
OdGet(d, k, dflt) ==
    IF OdHas(d, k) THEN d[CHOOSE j \in 1..Len(d) : d[j].k = k].v ELSE dflt

\* ordered dict: d[k] = v (an existing key keeps its position)
OdSet(d, k, v) ==
    IF OdHas(d, k)
    THEN [j \in 1..Len(d) |-> IF d[j].k = k THEN [k |-> k, v |-> v] ELSE d[j]]
    ELSE Append(d, [k |-> k, v |-> v])

OdKeys(d) == [j \in 1..Len(d) |-> d[j].k]

(***************************************************************************)
(* merge_ocr_results                                                       *)
(***************************************************************************)
NoLast == [set |-> FALSE, v |-> ""]

\* faulty variant: the label is stripped before it is used
MergeItemStripped(st, item) ==
    LET question_num == Strip(PyStr(Get(item, "question_number", JStr("Unknown"))))
        answer == Get(item, "answer", "No answer extracted")
    IN IF Lower(question_num) = "contd" /\ st.last.set
       THEN [merged |-> OdSet(st.merged, st.last.v,
                              OdGet(st.merged, st.last.v, "") \o "\n\n" \o answer),
             last |-> st.last]
       ELSE [merged |-> IF OdHas(st.merged, question_num)
                        THEN OdSet(st.merged, question_num,
                                   OdGet(st.merged, question_num, "") \o "\n\n" \o answer)
                        ELSE OdSet(st.merged, question_num, answer),
             last |-> [set |-> TRUE, v |-> question_num]]

\* faulty variant: the marker test without .lower()
MergeItemCaseSensitive(st, item) ==
    LET question_num == PyStr(Get(item, "question_number", JStr("Unknown")))
        answer == Get(item, "answer", "No answer extracted")
    IN IF question_num = "Contd" /\ st.last.set
       THEN [merged |-> OdSet(st.merged, st.last.v,
                              OdGet(st.merged, st.last.v, "") \o "\n\n" \o answer),
             last |-> st.last]
       ELSE [merged |-> IF OdHas(st.merged, question_num)
                        THEN OdSet(st.merged, question_num,
                                   OdGet(st.merged, question_num, "") \o "\n\n" \o answer)
                        ELSE OdSet(st.merged, question_num, answer),
             last |-> [set |-> TRUE, v |-> question_num]]

\* faulty variant: a label seen again overwrites its entry
MergeItemOverwrite(st, item) ==
    LET question_num == PyStr(Get(item, "question_number", JStr("Unknown")))
        answer == Get(item, "answer", "No answer extracted")
    IN IF Lower(question_num) = "contd" /\ st.last.set
       THEN [merged |-> OdSet(st.merged, st.last.v,
                              OdGet(st.merged, st.last.v, "") \o "\n\n" \o answer),
             last |-> st.last]
       ELSE [merged |-> OdSet(st.merged, question_num, answer),
             last |-> [set |-> TRUE, v |-> question_num]]

\* body of the inner loop, lines 25-44, on the accumulator [merged, last]
MergeItem(st, item) ==
    LET question_num == PyStr(Get(item, "question_number", JStr("Unknown")))
        answer == Get(item, "answer", "No answer extracted")
    IN IF Lower(question_num) = "contd" /\ st.last.set
       THEN [merged |-> OdSet(st.merged, st.last.v,
                              OdGet(st.merged, st.last.v, "") \o "\n\n" \o answer),
             last |-> st.last]
       ELSE [merged |-> IF OdHas(st.merged, question_num)
                        THEN OdSet(st.merged, question_num,
                                   OdGet(st.merged, question_num, "") \o "\n\n" \o answer)
                        ELSE OdSet(st.merged, question_num, answer),
             last |-> [set |-> TRUE, v |-> question_num]]

RECURSIVE MergeItems(_, _)
MergeItems(st, items) ==
    IF items = <<>> THEN st
    ELSE MergeItems(MergeItem(st, Head(items)), Tail(items))

\* faulty variant: last_question is reset at the start of every page
MergePageResetLast(st, page_results) ==
    IF ~page_results.isList THEN st
    ELSE MergeItems([merged |-> st.merged, last |-> NoLast], page_results.items)

\* faulty variant: a page that is not a list resets last_question
MergePageResetOnFailure(st, page_results) ==
    IF ~page_results.isList THEN [merged |-> st.merged, last |-> NoLast]
    ELSE MergeItems(st, page_results.items)

\* body of the outer loop, lines 21-25: a non-list page is skipped
MergePage(st, page_results) ==
    IF ~page_results.isList THEN st ELSE MergeItems(st, page_results.items)

RECURSIVE MergePages(_, _)
MergePages(st, pages) ==
    IF pages = <<>> THEN st
    ELSE MergePages(MergePage(st, Head(pages)), Tail(pages))

\* the final accumulator state of merge_ocr_results
MergeState(all_results) ==
    MergePages([merged |-> <<>>, last |-> NoLast], all_results)

merge_ocr_results(all_results) == MergeState(all_results).merged

(***************************************************************************)
(* ocr_page: what ocr_image can return for one page                        *)
(***************************************************************************)
\* the items OCR can return: the question number is a string or a number,
\* "Contd" in either letter case, and either key may be absent
OcrItems ==
    {[question_number |-> JStr("1"), answer |-> "a"],
     [question_number |-> JStr("Contd"), answer |-> "b"],
     [question_number |-> JStr("2"), answer |-> "c"],
     [question_number |-> JInt(1), answer |-> "b"],
     [question_number |-> JStr("contd"), answer |-> "c"],
     [question_number |-> JStr("2"), answer |-> "a"],
     [answer |-> "a"],
     [question_number |-> JStr("Contd")]}

SeqsUpTo(S, n) == UNION {[1..k -> S] : k \in 0..n}

RECURSIVE CountItems(_)
CountItems(pages) ==
    IF pages = <<>> THEN 0
    ELSE (IF Head(pages).isList THEN Len(Head(pages).items) ELSE 0)
         + CountItems(Tail(pages))

NotAList == [isList |-> FALSE, items |-> <<>>]

\* a session key that is not set
Absent == [has |-> FALSE, isList |-> FALSE, items |-> <<>>]

\* prepare_grading_data returned None / grading_results is not in the session
NoData == [isNone |-> TRUE, v |-> <<>>]
NoResults == [has |-> FALSE, v |-> <<>>]

\* no "Total Score" header on the screen
NoSummary == [shown |-> FALSE, awarded |-> 0, possible |-> 0,
              percentage |-> [ok |-> TRUE, num |-> 0, den |-> 1]]

\* a file_uploader widget that holds no file (None)
NoFile == [has |-> FALSE, name |-> "", content |-> 0]

NoUploads == [main_pdf |-> NoFile, question_paper |-> NoFile, grading_scheme |-> NoFile]

\* a *_file_name key that is not in the session
NoName == [set |-> FALSE, v |-> ""]

NoNames == [current_file_name |-> NoName, qp_file_name |-> NoName,
            gs_file_name |-> NoName]

Name(n) == [set |-> TRUE, v |-> n]

\* the files a user can choose: two of them have the same name
Files ==
    {[has |-> TRUE, name |-> "a.pdf", content |-> 1],
     [has |-> TRUE, name |-> "a.pdf", content |-> 2],
     [has |-> TRUE, name |-> "b.pdf", content |-> 3]}

\* faulty variant: a chosen file is processed on every run
NeedsProcessingAlways(recorded, f) == f.has

\* lines 66-70, 243-245, 271-273: a file is processed when no name is
\* recorded for its widget or the recorded name differs from the file's
NeedsProcessing(recorded, f) ==
    f.has /\ (~recorded.set \/ recorded.v # f.name)

\* the widgets and recorded names of a session in which the answer booklet,
\* and the question paper and grading scheme if their data is there, were
\* uploaded and processed
ProcessedUploads(qp, gs) ==
    LET f == [has |-> TRUE, name |-> "a.pdf", content |-> 1]
    IN [main_pdf |-> f,
        question_paper |-> IF qp.has THEN f ELSE NoFile,
        grading_scheme |-> IF gs.has THEN f ELSE NoFile]

ProcessedNames(qp, gs) ==
    [current_file_name |-> Name("a.pdf"),
     qp_file_name |-> IF qp.has THEN Name("a.pdf") ELSE NoName,
     gs_file_name |-> IF gs.has THEN Name("a.pdf") ELSE NoName]

UploadVars == <<uploaded, file_names, called>>

(***************************************************************************)
(* ocr_page, lines 72-162: the page loop and the merge                     *)
(***************************************************************************)
GradeVarsMerge == <<question_paper_json, grading_scheme_json, user_notes,
                    grading_data, results, outcomes, progress, grading_results,
                    summary, UploadVars>>

\* line 72: a new file is in the widget and its name has been recorded
InitMerge ==
    /\ pc = "ocr_start"
    /\ total_pages = 0
    /\ page_i = 0
    /\ all_ocr_results = <<>>
    /\ merged_answers = <<>>
    /\ question_paper_json = Absent
    /\ grading_scheme_json = Absent
    /\ user_notes = ""
    /\ grading_data = NoData
    /\ results = <<>>
    /\ outcomes = <<>>
    /\ progress = <<>>
    /\ grading_results = NoResults
    /\ summary = NoSummary
    /\ page_errors = {}
    /\ uploaded = [NoUploads EXCEPT
                       !.main_pdf = [has |-> TRUE, name |-> "a.pdf", content |-> 1]]
    /\ file_names = [NoNames EXCEPT !.current_file_name = Name("a.pdf")]
    /\ called = {}

\* lines 81-87: the PDF is opened and the local list created
OpenPdf ==
    /\ pc = "ocr_start"
    /\ \E n \in 0..MaxPages : total_pages' = n
    /\ page_i' = 0
    /\ all_ocr_results' = <<>>
    /\ page_errors' = {}
    /\ pc' = "ocr_pages"
    /\ UNCHANGED <<merged_answers>>
    /\ UNCHANGED GradeVarsMerge

\* lines 110-113: ocr_image returned a list of items
OcrPageList ==
    /\ pc = "ocr_pages"
    /\ page_i < total_pages
    /\ \E items \in SeqsUpTo(OcrItems, MaxFragments - CountItems(all_ocr_results)) :
          all_ocr_results' = Append(all_ocr_results, [isList |-> TRUE, items |-> items])
    /\ page_i' = page_i + 1
    /\ UNCHANGED <<pc, total_pages, merged_answers, page_errors>>
    /\ UNCHANGED GradeVarsMerge

\* lines 110-113, ocr.py 84-86: ocr_image returned the {"text": ...} fallback
OcrPageNotList ==
    /\ pc = "ocr_pages"
    /\ page_i < total_pages
    /\ all_ocr_results' = Append(all_ocr_results, NotAList)
    /\ page_i' = page_i + 1
    /\ UNCHANGED <<pc, total_pages, merged_answers, page_errors>>
    /\ UNCHANGED GradeVarsMerge

\* lines 139-140: ocr_image raised, nothing is appended for the page
OcrPageRaise ==
    /\ pc = "ocr_pages"
    /\ page_i < total_pages
    /\ page_i' = page_i + 1
    /\ page_errors' = page_errors \cup {page_i + 1}
    /\ UNCHANGED <<pc, total_pages, all_ocr_results, merged_answers>>
    /\ UNCHANGED GradeVarsMerge

\* lines 149-162: after the last page the results are merged and stored
FinishOcr ==
    /\ pc = "ocr_pages"
    /\ page_i = total_pages
    /\ merged_answers' = merge_ocr_results(all_ocr_results)
    /\ pc' = "ocr_done"
    /\ UNCHANGED <<total_pages, page_i, all_ocr_results, page_errors>>
    /\ UNCHANGED GradeVarsMerge

NextMerge == OpenPdf \/ OcrPageList \/ OcrPageNotList \/ OcrPageRaise \/ FinishOcr

SpecMerge == InitMerge /\ [][NextMerge]_vars

\* items whose question number carries leading or trailing blanks, as the
\* OCR model may transcribe them
OcrItemsSpaced ==
    {[question_number |-> JStr("1"), answer |-> "a"],
     [question_number |-> JStr(" 1"), answer |-> "b"],
     [question_number |-> JStr(" Contd "), answer |-> "c"],
     [question_number |-> JStr("Contd"), answer |-> "b"],
     [question_number |-> JStr("2 "), answer |-> "a"]}

\* lines 110-113: ocr_image returned a list of items with blanks in labels
OcrPageListSpaced ==
    /\ pc = "ocr_pages"
    /\ page_i < total_pages
    /\ \E items \in SeqsUpTo(OcrItemsSpaced, MaxFragments - CountItems(all_ocr_results)) :
          all_ocr_results' = Append(all_ocr_results, [isList |-> TRUE, items |-> items])
    /\ page_i' = page_i + 1
    /\ UNCHANGED <<pc, total_pages, merged_answers, page_errors>>
    /\ UNCHANGED GradeVarsMerge

\* lines 81-87: a PDF that may have one page more, so that a failed page can
\* lie between two good ones
OpenPdfLong ==
    /\ pc = "ocr_start"
    /\ \E n \in 1..(MaxPages + 1) : total_pages' = n
    /\ page_i' = 0
    /\ all_ocr_results' = <<>>
    /\ page_errors' = {}
    /\ pc' = "ocr_pages"
    /\ UNCHANGED <<merged_answers>>
    /\ UNCHANGED GradeVarsMerge

\* a real label, the marker, another real label
OcrItemsFew ==
    {[question_number |-> JStr("1"), answer |-> "a"],
     [question_number |-> JStr("Contd"), answer |-> "b"],
     [question_number |-> JStr("2"), answer |-> "c"]}

\* lines 110-113: ocr_image returned a list of items
OcrPageListFew ==
    /\ pc = "ocr_pages"
    /\ page_i < total_pages
    /\ \E items \in SeqsUpTo(OcrItemsFew, MaxFragments - CountItems(all_ocr_results)) :
          all_ocr_results' = Append(all_ocr_results, [isList |-> TRUE, items |-> items])
    /\ page_i' = page_i + 1
    /\ UNCHANGED <<pc, total_pages, merged_answers, page_errors>>
    /\ UNCHANGED GradeVarsMerge

NextFailedPages ==
    OpenPdfLong \/ OcrPageListFew \/ OcrPageNotList \/ OcrPageRaise \/ FinishOcr

SpecFailedPages == InitMerge /\ [][NextFailedPages]_vars

NextLabels == OpenPdf \/ OcrPageListSpaced \/ FinishOcr

SpecLabels == InitMerge /\ [][NextLabels]_vars

(***************************************************************************)
(* prepare_grading_data                                                    *)
(***************************************************************************)
\* line 342: the dict comprehension over the grading scheme, a later item of
\* the same question number replaces the scheme of an earlier one
RECURSIVE GsLookup(_, _)
GsLookup(d, items) ==
    IF items = <<>> THEN d
    ELSE GsLookup(OdSet(d, PyStr(Get(Head(items), "question_number", JNone)),
                        Get(Head(items), "grading_scheme", "")),
                  Tail(items))

\* lines 362-370: the request built for one question
QuestionData(question, q_num, gs_lookup, student_answers, professor_prompt) ==
    [question_num |-> JStr(q_num),
     question |-> Get(question, "question", ""),
     marks |-> Get(question, "marks", DefaultMarks),
     student_answer |-> OdGet(student_answers, q_num, ""),
     grading_scheme |-> OdGet(gs_lookup, q_num, ""),
     relevant_lecture_text |-> "",
     professor_prompt |-> professor_prompt]

\* faulty variant: the requests are emitted in the order of the merged answers
RequestsByAnswerOrder(questions, gs_lookup, student_answers, professor_prompt) ==
    LET labelled(k) == SelectSeq(questions,
                          LAMBDA q : PyStr(Get(q, "question_number", JStr(""))) = k)
        answered == {student_answers[j].k : j \in 1..Len(student_answers)}
        rest == SelectSeq(questions,
                    LAMBDA q : LET n == PyStr(Get(q, "question_number", JStr("")))
                               IN n # "" /\ n \notin answered)
        build(qs) == [j \in 1..Len(qs) |->
                         QuestionData(qs[j], PyStr(Get(qs[j], "question_number", JStr(""))),
                                      gs_lookup, student_answers, professor_prompt)]
        RECURSIVE byKey(_)
        byKey(j) == IF j > Len(student_answers) THEN <<>>
                    ELSE build(labelled(student_answers[j].k)) \o byKey(j + 1)
    IN byKey(1) \o build(rest)

\* faulty variant: a question without an answer or without a scheme is skipped
RECURSIVE RequestsSkipMissing(_, _, _, _)
RequestsSkipMissing(questions, gs_lookup, student_answers, professor_prompt) ==
    IF questions = <<>> THEN <<>>
    ELSE LET question == Head(questions)
             q_num == PyStr(Get(question, "question_number", JStr("")))
             rest == RequestsSkipMissing(Tail(questions), gs_lookup,
                                         student_answers, professor_prompt)
         IN IF q_num = "" \/ ~OdHas(student_answers, q_num) \/ ~OdHas(gs_lookup, q_num)
            THEN rest
            ELSE <<QuestionData(question, q_num, gs_lookup, student_answers,
                                professor_prompt)>> \o rest

\* faulty variant: the entry without a question number is not skipped
RECURSIVE RequestsNoSkip(_, _, _, _)
RequestsNoSkip(questions, gs_lookup, student_answers, professor_prompt) ==
    IF questions = <<>> THEN <<>>
    ELSE LET question == Head(questions)
             q_num == PyStr(Get(question, "question_number", JStr("")))
         IN <<QuestionData(question, q_num, gs_lookup, student_answers,
                           professor_prompt)>>
            \o RequestsNoSkip(Tail(questions), gs_lookup, student_answers,
                              professor_prompt)

\* lines 348-372: the loop over the question paper
RECURSIVE Requests(_, _, _, _)
Requests(questions, gs_lookup, student_answers, professor_prompt) ==
    IF questions = <<>> THEN <<>>
    ELSE LET question == Head(questions)
             q_num == PyStr(Get(question, "question_number", JStr("")))
             rest == Requests(Tail(questions), gs_lookup, student_answers,
                              professor_prompt)
         IN IF q_num = "" THEN rest
            ELSE <<QuestionData(question, q_num, gs_lookup, student_answers,
                                professor_prompt)>> \o rest

\* faulty variant: a grading scheme that is not a list counts as an empty one
prepare_grading_data_lenient(question_paper, grading_scheme, student_answers, notes) ==
    IF ~question_paper.has \/ ~grading_scheme.has THEN NoData
    ELSE IF ~question_paper.isList THEN NoData
    ELSE [isNone |-> FALSE,
          v |-> Requests(question_paper.items,
                         GsLookup(<<>>, IF grading_scheme.isList
                                        THEN grading_scheme.items ELSE <<>>),
                         student_answers, notes)]

\* lines 320-374; merged_answers is always in the session (lines 57-58)
prepare_grading_data(question_paper, grading_scheme, student_answers, notes) ==
    IF ~question_paper.has \/ ~grading_scheme.has THEN NoData
    ELSE IF ~question_paper.isList THEN NoData
    ELSE IF ~grading_scheme.isList THEN NoData
    ELSE [isNone |-> FALSE,
          v |-> Requests(question_paper.items, GsLookup(<<>>, grading_scheme.items),
                         student_answers, notes)]

(***************************************************************************)
(* Session contents the extractors can leave behind                        *)
(***************************************************************************)
\* question-paper items (ocr.py, process_question_paper): either key may be
\* absent, the question number may be empty
QuestionItems ==
    {[question_number |-> q, question |-> "Q", marks |-> 2] :
        q \in {JStr("1"), JStr("2"), JStr("")}}
    \cup {[question_number |-> JInt(2), question |-> "Q"],
          [question |-> "Q", marks |-> 2],
          [question_number |-> JStr("1"), question |-> "Q", marks |-> 0]}

\* grading-scheme items (ocr.py, process_grading_scheme)
SchemeItems ==
    {[question_number |-> JStr("1"), grading_scheme |-> "g1"],
     [question_number |-> JStr("2"), grading_scheme |-> "g2"],
     [question_number |-> JInt(1), grading_scheme |-> "g2"],
     [question_number |-> JStr("2")],
     [grading_scheme |-> "g1"]}

AnswerKeys == {"1", "2"}

\* merged answers in every insertion order
MergedAnswerMaps ==
    {d \in SeqsUpTo([k : AnswerKeys, v : {"x"}], Cardinality(AnswerKeys)) :
        \A h, j \in 1..Len(d) : h # j => d[h].k # d[j].k}

AsList(items) == [has |-> TRUE, isList |-> TRUE, items |-> items]

\* the {"error": ...} / {"text": ...} dict an extractor returns on failure
NotListJson == [has |-> TRUE, isList |-> FALSE, items |-> <<>>]

(***************************************************************************)
(* SpecPrepare: prepare_grading_data applied to bounded session contents   *)
(***************************************************************************)
InitPrepare ==
    /\ pc = "prepare_start"
    /\ total_pages = 0
    /\ page_i = 0
    /\ all_ocr_results = <<>>
    /\ merged_answers \in MergedAnswerMaps
    /\ question_paper_json \in
          {AsList(items) : items \in SeqsUpTo(QuestionItems, MaxQuestions)}
    /\ grading_scheme_json \in
          {AsList(items) : items \in SeqsUpTo(SchemeItems, MaxSchemes)}
    /\ user_notes = "be strict"
    /\ grading_data = NoData
    /\ results = <<>>
    /\ outcomes = <<>>
    /\ progress = <<>>
    /\ grading_results = NoResults
    /\ summary = NoSummary
    /\ page_errors = {}
    /\ uploaded = ProcessedUploads(question_paper_json, grading_scheme_json)
    /\ file_names = ProcessedNames(question_paper_json, grading_scheme_json)
    /\ called = {}

\* line 383
Prepare ==
    /\ pc = "prepare_start"
    /\ grading_data' = prepare_grading_data(question_paper_json, grading_scheme_json,
                                            merged_answers, user_notes)
    /\ pc' = "prepared"
    /\ UNCHANGED <<total_pages, page_i, all_ocr_results, merged_answers,
                   question_paper_json, grading_scheme_json, user_notes, results,
                   outcomes, progress, grading_results, summary, page_errors>>
    /\ UNCHANGED UploadVars

NextPrepare == Prepare

SpecPrepare == InitPrepare /\ [][NextPrepare]_vars

(***************************************************************************)
(* grade_answer (grader.py) and the grading loop of grading_page           *)
(***************************************************************************)
\* the JSON objects the model can answer with: the prompt asks for
\* question_num, marks_awarded and explanation, nothing enforces it
Payloads ==
    {[marks_awarded |-> m, explanation |-> "ok"] : m \in {0, 2, 5}}
    \cup {[question_num |-> q, marks_awarded |-> 2, explanation |-> "ok"] :
             q \in {JInt(1), JStr("2")}}
    \cup {[marks_awarded |-> m, explanation |-> "ok", marks |-> 7] : m \in {2, 7}}

\* what one call of grade_answer can do: generate_content raises, or
\* response.text is not JSON, is JSON but not an object, or is an object
EvalOutcomes ==
    {[kind |-> "raise", d |-> <<>>],
     [kind |-> "invalid", d |-> <<>>],
     [kind |-> "nondict", d |-> <<>>]}
    \cup {[kind |-> "dict", d |-> p] : p \in Payloads}

\* grader.py lines 83-88, for an outcome other than "raise"
grade_answer(outcome) ==
    CASE outcome.kind = "dict" -> [isDict |-> TRUE, d |-> outcome.d]
      [] outcome.kind = "nondict" -> [isDict |-> FALSE, d |-> <<>>]
      [] OTHER -> [isDict |-> TRUE,
                   d |-> [error |-> "Failed to parse grading results",
                          raw_response |-> "not json"]]

\* lines 410-415: the placeholder for a failed grading
Placeholder(question_data, e) ==
    DictMerge(question_data,
              [error |-> e, marks_awarded |-> 0, explanation |-> "Error during grading"])

\* faulty variant: a failed grading appends nothing
LoopBodyDropOnFailure(res, question_data, outcome) ==
    IF outcome.kind = "raise" THEN res
    ELSE IF ~grade_answer(outcome).isDict THEN res
    ELSE Append(res, DictMerge(question_data, grade_answer(outcome).d))

\* lines 398-415: one iteration of the loop; {**question_data, **x} raises
\* TypeError inside the try when x is not a mapping
LoopBody(res, question_data, outcome) ==
    IF outcome.kind = "raise"
    THEN Append(res, Placeholder(question_data, "evaluator failed"))
    ELSE IF ~grade_answer(outcome).isDict
    THEN Append(res, Placeholder(question_data, "object is not a mapping"))
    ELSE Append(res, DictMerge(question_data, grade_answer(outcome).d))

\* progress_bar.progress((i+1) / len(grading_data)), line 418, as the
\* fraction done/total
ProgressCallOffByOne(i, total) == [done |-> i, total |-> total]

ProgressCall(i, total) == [done |-> i + 1, total |-> total]

(***************************************************************************)
(* The score summary of grading_page, lines 424-432                        *)
(***************************************************************************)
\* sum(result.get(key, 0) for result in results)
RECURSIVE SumField(_, _)
SumField(rs, key) ==
    IF rs = <<>> THEN 0 ELSE Get(Head(rs), key, 0) + SumField(Tail(rs), key)

\* faulty variant: the division without the guard; ok = FALSE stands for the
\* ZeroDivisionError
PercentageUnguarded(awarded, possible) ==
    IF possible # 0
    THEN [ok |-> TRUE, num |-> awarded * 100, den |-> possible]
    ELSE [ok |-> FALSE, num |-> 0, den |-> 0]

\* line 432: (awarded / possible * 100) if possible else 0, as the fraction
\* num/den
Percentage(awarded, possible) ==
    IF possible # 0
    THEN [ok |-> TRUE, num |-> awarded * 100, den |-> possible]
    ELSE [ok |-> TRUE, num |-> 0, den |-> 1]

\* lines 428-432 and 462-463: an empty result list gives the warning only
Summarise(rs) ==
    IF rs = <<>> THEN NoSummary
    ELSE [shown |-> TRUE,
          awarded |-> SumField(rs, "marks_awarded"),
          possible |-> SumField(rs, "marks"),
          percentage |-> Percentage(SumField(rs, "marks_awarded"),
                                    SumField(rs, "marks"))]

(***************************************************************************)
(* Spec: the materials page, the grading page and the way back             *)
(***************************************************************************)
OcrVars == <<total_pages, page_i, all_ocr_results, page_errors>>
SessionInputs == <<merged_answers, question_paper_json, grading_scheme_json, user_notes>>
GradingLocals == <<grading_data, results, outcomes, progress>>

\* the session contents a later upload can leave behind
NewMergedAnswers == {<<[k |-> "1", v |-> "x"]>>, <<[k |-> "2", v |-> "y"]>>}
NewQuestionPapers ==
    {AsList(<<[question_number |-> JStr("2"), question |-> "Q2", marks |-> 2]>>)}
NewGradingSchemes ==
    {AsList(<<[question_number |-> JStr("2"), grading_scheme |-> "g2"]>>)}

\* the materials page of a session whose answer booklet has been processed;
\* the question paper may not have been uploaded yet
Init ==
    /\ pc = "materials"
    /\ total_pages = 0
    /\ page_i = 0
    /\ all_ocr_results = <<>>
    /\ merged_answers = <<[k |-> "1", v |-> "x"]>>
    /\ question_paper_json \in
          {Absent, NotListJson}
          \cup {AsList(items) : items \in SeqsUpTo(QuestionItems, MaxQuestions)}
    /\ grading_scheme_json \in
          {NotListJson, AsList(<<>>),
           AsList(<<[question_number |-> JInt(1), grading_scheme |-> "g1"]>>)}
    /\ user_notes = ""
    /\ grading_data = NoData
    /\ results = <<>>
    /\ outcomes = <<>>
    /\ progress = <<>>
    /\ grading_results = NoResults
    /\ summary = NoSummary
    /\ page_errors = {}
    /\ uploaded = ProcessedUploads(question_paper_json, grading_scheme_json)
    /\ file_names = ProcessedNames(question_paper_json, grading_scheme_json)
    /\ called = {}

\* lines 312-318: the Grade Answers button
GradeButton ==
    /\ pc = "materials"
    /\ pc' = IF question_paper_json.has /\ grading_scheme_json.has
             THEN "grading_start" ELSE "materials_error"
    /\ UNCHANGED <<grading_results, summary>>
    /\ UNCHANGED GradingLocals
    /\ UNCHANGED OcrVars
    /\ called' = {}
    /\ UNCHANGED <<uploaded, file_names>>
    /\ UNCHANGED SessionInputs

\* faulty variant: only None counts as "no requests"
NoRequestsNoneOnly(gd) == gd.isNone

\* line 385: not grading_data
NoRequests(gd) == gd.isNone \/ gd.v = <<>>

\* lines 381-390: the requests are prepared; without requests the page
\* reports the error and returns
GradingPrepare ==
    /\ pc = "grading_start"
    /\ ~grading_results.has
    /\ grading_data' = prepare_grading_data(question_paper_json, grading_scheme_json,
                                            merged_answers, user_notes)
    /\ pc' = IF NoRequests(grading_data') THEN "grading_error" ELSE "grading_loop"
    /\ results' = <<>>
    /\ outcomes' = <<>>
    /\ progress' = <<>>
    /\ UNCHANGED <<grading_results, summary>>
    /\ UNCHANGED OcrVars
    /\ UNCHANGED UploadVars
    /\ UNCHANGED SessionInputs

\* lines 396-418: one iteration in which grade_answer returns
GradeAnswerReturns ==
    /\ pc = "grading_loop"
    /\ Len(outcomes) < Len(grading_data.v)
    /\ \E outcome \in EvalOutcomes :
          /\ outcome.kind # "raise"
          /\ results' = LoopBody(results, grading_data.v[Len(outcomes) + 1], outcome)
          /\ outcomes' = Append(outcomes, outcome)
    /\ progress' = Append(progress, ProgressCall(Len(outcomes), Len(grading_data.v)))
    /\ UNCHANGED <<pc, grading_data, grading_results, summary>>
    /\ UNCHANGED OcrVars
    /\ UNCHANGED UploadVars
    /\ UNCHANGED SessionInputs

\* lines 396-418: one iteration in which grade_answer raises
GradeAnswerRaises ==
    /\ pc = "grading_loop"
    /\ Len(outcomes) < Len(grading_data.v)
    /\ \E outcome \in EvalOutcomes :
          /\ outcome.kind = "raise"
          /\ results' = LoopBody(results, grading_data.v[Len(outcomes) + 1], outcome)
          /\ outcomes' = Append(outcomes, outcome)
    /\ progress' = Append(progress, ProgressCall(Len(outcomes), Len(grading_data.v)))
    /\ UNCHANGED <<pc, grading_data, grading_results, summary>>
    /\ UNCHANGED OcrVars
    /\ UNCHANGED UploadVars
    /\ UNCHANGED SessionInputs

\* lines 420-432: after the last request the results go to the session and
\* the summary is displayed from them
StoreResults ==
    /\ pc = "grading_loop"
    /\ Len(outcomes) = Len(grading_data.v)
    /\ grading_results' = [has |-> TRUE, v |-> results]
    /\ summary' = Summarise(results)
    /\ pc' = "grading_shown"
    /\ UNCHANGED GradingLocals
    /\ UNCHANGED OcrVars
    /\ UNCHANGED UploadVars
    /\ UNCHANGED SessionInputs

\* lines 390-421: the script run is stopped inside the loop (the user
\* interacts with the page, or stops the app); `results` is a local of the
\* run and the session is written only at line 421
AbortGrading ==
    /\ pc = "grading_loop"
    /\ Len(outcomes) < Len(grading_data.v)
    /\ results' = <<>>
    /\ pc' = "grading_aborted"
    /\ UNCHANGED <<grading_data, outcomes, progress, grading_results, summary>>
    /\ UNCHANGED OcrVars
    /\ UNCHANGED UploadVars
    /\ UNCHANGED SessionInputs

\* lines 476-487: the next run of the script shows the grading page again
RerunAfterAbort ==
    /\ pc = "grading_aborted"
    /\ pc' = "grading_start"
    /\ grading_data' = NoData
    /\ outcomes' = <<>>
    /\ progress' = <<>>
    /\ UNCHANGED <<results, grading_results, summary>>
    /\ UNCHANGED OcrVars
    /\ UNCHANGED UploadVars
    /\ UNCHANGED SessionInputs

\* lines 381 and 424-432: with grading_results in the session nothing is
\* prepared or graded, the stored results are displayed
ShowStoredResults ==
    /\ pc = "grading_start"
    /\ grading_results.has
    /\ summary' = Summarise(grading_results.v)
    /\ pc' = "grading_shown"
    /\ UNCHANGED <<grading_results>>
    /\ UNCHANGED GradingLocals
    /\ UNCHANGED OcrVars
    /\ UNCHANGED UploadVars
    /\ UNCHANGED SessionInputs

\* lines 468-470: Back to Materials; the locals of the grading run are gone
BackToMaterials ==
    /\ pc = "grading_shown"
    /\ pc' = "materials"
    /\ summary' = NoSummary
    /\ grading_data' = NoData
    /\ results' = <<>>
    /\ outcomes' = <<>>
    /\ progress' = <<>>
    /\ UNCHANGED <<grading_results>>
    /\ UNCHANGED OcrVars
    /\ called' = {}
    /\ UNCHANGED <<uploaded, file_names>>
    /\ UNCHANGED SessionInputs

\* lines 472-474: Back to OCR
BackToOcr ==
    /\ pc = "grading_shown"
    /\ pc' = "ocr"
    /\ summary' = NoSummary
    /\ grading_data' = NoData
    /\ results' = <<>>
    /\ outcomes' = <<>>
    /\ progress' = <<>>
    /\ UNCHANGED <<grading_results>>
    /\ UNCHANGED OcrVars
    /\ called' = {}
    /\ UNCHANGED <<uploaded, file_names>>
    /\ UNCHANGED SessionInputs

\* lines 66-162: another answer booklet is uploaded and processed
UploadAnswerBooklet ==
    /\ pc = "ocr"
    /\ \E m \in NewMergedAnswers : m # merged_answers /\ merged_answers' = m
    /\ UNCHANGED <<pc, question_paper_json, grading_scheme_json, user_notes,
                   grading_results, summary>>
    /\ UNCHANGED GradingLocals
    /\ UNCHANGED OcrVars
    /\ \E f \in Files :
          /\ NeedsProcessing(file_names.current_file_name, f)
          /\ uploaded' = [uploaded EXCEPT !.main_pdf = f]
          /\ file_names' = [file_names EXCEPT !.current_file_name = Name(f.name)]
    /\ called' = {"ocr_image"}

\* lines 228-231: Next
NextButton ==
    /\ pc = "ocr"
    /\ pc' = "materials"
    /\ UNCHANGED <<grading_results, summary>>
    /\ UNCHANGED GradingLocals
    /\ UNCHANGED OcrVars
    /\ called' = {}
    /\ UNCHANGED <<uploaded, file_names>>
    /\ UNCHANGED SessionInputs

\* lines 243-255: another question paper is uploaded and processed, after a
\* summary (before the first grading Init ranges over the papers)
UploadQuestionPaper ==
    /\ pc = "materials"
    /\ grading_results.has
    /\ \E q \in NewQuestionPapers : q # question_paper_json /\ question_paper_json' = q
    /\ UNCHANGED <<pc, merged_answers, grading_scheme_json, user_notes,
                   grading_results, summary>>
    /\ UNCHANGED GradingLocals
    /\ UNCHANGED OcrVars
    /\ \E f \in Files :
          /\ NeedsProcessing(file_names.qp_file_name, f)
          /\ uploaded' = [uploaded EXCEPT !.question_paper = f]
          /\ file_names' = [file_names EXCEPT !.qp_file_name = Name(f.name)]
    /\ called' = {"process_question_paper_pdf"}

\* lines 271-283: another grading scheme is uploaded and processed
UploadGradingScheme ==
    /\ pc = "materials"
    /\ grading_results.has
    /\ \E g \in NewGradingSchemes : g # grading_scheme_json /\ grading_scheme_json' = g
    /\ UNCHANGED <<pc, merged_answers, question_paper_json, user_notes,
                   grading_results, summary>>
    /\ UNCHANGED GradingLocals
    /\ UNCHANGED OcrVars
    /\ \E f \in Files :
          /\ NeedsProcessing(file_names.gs_file_name, f)
          /\ uploaded' = [uploaded EXCEPT !.grading_scheme = f]
          /\ file_names' = [file_names EXCEPT !.gs_file_name = Name(f.name)]
    /\ called' = {"process_grading_scheme_pdf"}

Next ==
    \/ GradeButton \/ GradingPrepare \/ GradeAnswerReturns \/ GradeAnswerRaises
    \/ StoreResults \/ AbortGrading \/ RerunAfterAbort

Spec == Init /\ [][Next]_vars

(***************************************************************************)
(* SpecResubmit: one graded submission, then the way back to the upload    *)
(* pages and to the grading page again                                     *)
(***************************************************************************)
InitResubmit ==
    /\ pc = "materials"
    /\ total_pages = 0
    /\ page_i = 0
    /\ all_ocr_results = <<>>
    /\ merged_answers = <<[k |-> "1", v |-> "x"]>>
    /\ question_paper_json \in
          {AsList(<<[question_number |-> JStr("1"), question |-> "Q", marks |-> 2]>>),
           AsList(<<[question_number |-> JStr("1"), question |-> "Q", marks |-> 2],
                    [question_number |-> JInt(2), question |-> "Q"]>>)}
    /\ grading_scheme_json =
          AsList(<<[question_number |-> JInt(1), grading_scheme |-> "g1"]>>)
    /\ user_notes = ""
    /\ grading_data = NoData
    /\ results = <<>>
    /\ outcomes = <<>>
    /\ progress = <<>>
    /\ grading_results = NoResults
    /\ summary = NoSummary
    /\ page_errors = {}
    /\ uploaded = ProcessedUploads(question_paper_json, grading_scheme_json)
    /\ file_names = ProcessedNames(question_paper_json, grading_scheme_json)
    /\ called = {}

NextResubmit ==
    \/ GradeButton \/ GradingPrepare \/ GradeAnswerReturns \/ GradeAnswerRaises
    \/ StoreResults \/ ShowStoredResults
    \/ BackToMaterials \/ BackToOcr \/ UploadAnswerBooklet \/ NextButton
    \/ UploadQuestionPaper \/ UploadGradingScheme

SpecResubmit == InitResubmit /\ [][NextResubmit]_vars

(***************************************************************************)
(* SpecUpload: the runs of the two upload pages. A run handles the widget  *)
(* the user has just changed; the other widgets hold the file whose name   *)
(* was recorded for them, so the run skips them.                           *)
(***************************************************************************)
\* a new session on the OCR page (lines 54-58, 479)
InitUpload ==
    /\ pc = "ocr"
    /\ total_pages = 0
    /\ page_i = 0
    /\ all_ocr_results = <<>>
    /\ merged_answers = <<>>
    /\ question_paper_json = Absent
    /\ grading_scheme_json = Absent
    /\ user_notes = ""
    /\ grading_data = NoData
    /\ results = <<>>
    /\ outcomes = <<>>
    /\ progress = <<>>
    /\ grading_results = NoResults
    /\ summary = NoSummary
    /\ page_errors = {}
    /\ uploaded = NoUploads
    /\ file_names = NoNames
    /\ called = {}

\* lines 66-162: a file with a new name is in the widget; its name is
\* recorded, the pages are processed and the merged answers stored
OcrPageProcess ==
    /\ pc = "ocr"
    /\ \E f \in Files :
          /\ NeedsProcessing(file_names.current_file_name, f)
          /\ uploaded' = [uploaded EXCEPT !.main_pdf = f]
          /\ file_names' = [file_names EXCEPT !.current_file_name = Name(f.name)]
    /\ \E m \in NewMergedAnswers : merged_answers' = m
    /\ called' = {"ocr_image"}
    /\ UNCHANGED <<pc, question_paper_json, grading_scheme_json, user_notes,
                   grading_results, summary>>
    /\ UNCHANGED GradingLocals
    /\ UNCHANGED OcrVars

\* lines 66-83, 191-192: the name is recorded, then the PDF cannot be opened
\* or a page cannot be rendered, or the run is stopped: nothing is stored
OcrPageProcessFails ==
    /\ pc = "ocr"
    /\ \E f \in Files :
          /\ NeedsProcessing(file_names.current_file_name, f)
          /\ uploaded' = [uploaded EXCEPT !.main_pdf = f]
          /\ file_names' = [file_names EXCEPT !.current_file_name = Name(f.name)]
    /\ \E c \in {{}, {"ocr_image"}} : called' = c
    /\ UNCHANGED <<pc, grading_results, summary>>
    /\ UNCHANGED GradingLocals
    /\ UNCHANGED OcrVars
    /\ UNCHANGED SessionInputs

\* lines 66-72, 198-223: the widget is empty, or its file has the recorded
\* name ("Using previously processed results")
OcrPageSkip ==
    /\ pc = "ocr"
    /\ \E f \in Files \cup {NoFile} :
          /\ ~NeedsProcessing(file_names.current_file_name, f)
          /\ uploaded' = [uploaded EXCEPT !.main_pdf = f]
    /\ called' = {}
    /\ UNCHANGED <<pc, file_names, grading_results, summary>>
    /\ UNCHANGED GradingLocals
    /\ UNCHANGED OcrVars
    /\ UNCHANGED SessionInputs

\* lines 243-255: a file with a new name is in the widget; its name is
\* recorded, it is processed and what the extractor returned is stored (a
\* list, or the dict it returns for its own failures)
QuestionPaperProcess ==
    /\ pc = "materials"
    /\ \E f \in Files :
          /\ NeedsProcessing(file_names.qp_file_name, f)
          /\ uploaded' = [uploaded EXCEPT !.question_paper = f]
          /\ file_names' = [file_names EXCEPT !.qp_file_name = Name(f.name)]
    /\ \E j \in NewQuestionPapers \cup {NotListJson} : question_paper_json' = j
    /\ called' = {"process_question_paper_pdf"}
    /\ UNCHANGED <<pc, merged_answers, grading_scheme_json, user_notes, grading_results,
                   summary>>
    /\ UNCHANGED GradingLocals
    /\ UNCHANGED OcrVars

\* lines 243-257: the name is recorded, then the run ends before the store (the
\* temporary file cannot be written, the call raises, the run is stopped)
QuestionPaperProcessFails ==
    /\ pc = "materials"
    /\ \E f \in Files :
          /\ NeedsProcessing(file_names.qp_file_name, f)
          /\ uploaded' = [uploaded EXCEPT !.question_paper = f]
          /\ file_names' = [file_names EXCEPT !.qp_file_name = Name(f.name)]
    /\ \E c \in {{}, {"process_question_paper_pdf"}} : called' = c
    /\ UNCHANGED <<pc, grading_results, summary>>
    /\ UNCHANGED GradingLocals
    /\ UNCHANGED OcrVars
    /\ UNCHANGED SessionInputs

\* lines 243-264: the widget is empty, or its file has the recorded name
QuestionPaperSkip ==
    /\ pc = "materials"
    /\ \E f \in Files \cup {NoFile} :
          /\ ~NeedsProcessing(file_names.qp_file_name, f)
          /\ uploaded' = [uploaded EXCEPT !.question_paper = f]
    /\ called' = {}
    /\ UNCHANGED <<pc, file_names, grading_results, summary>>
    /\ UNCHANGED GradingLocals
    /\ UNCHANGED OcrVars
    /\ UNCHANGED SessionInputs

\* lines 271-283: a file with a new name is in the widget; its name is
\* recorded, it is processed and what the extractor returned is stored (a
\* list, or the dict it returns for its own failures)
GradingSchemeProcess ==
    /\ pc = "materials"
    /\ \E f \in Files :
          /\ NeedsProcessing(file_names.gs_file_name, f)
          /\ uploaded' = [uploaded EXCEPT !.grading_scheme = f]
          /\ file_names' = [file_names EXCEPT !.gs_file_name = Name(f.name)]
    /\ \E j \in NewGradingSchemes \cup {NotListJson} : grading_scheme_json' = j
    /\ called' = {"process_grading_scheme_pdf"}
    /\ UNCHANGED <<pc, merged_answers, question_paper_json, user_notes, grading_results,
                   summary>>
    /\ UNCHANGED GradingLocals
    /\ UNCHANGED OcrVars

\* lines 271-285: the name is recorded, then the run ends before the store (the
\* temporary file cannot be written, the call raises, the run is stopped)
GradingSchemeProcessFails ==
    /\ pc = "materials"
    /\ \E f \in Files :
          /\ NeedsProcessing(file_names.gs_file_name, f)
          /\ uploaded' = [uploaded EXCEPT !.grading_scheme = f]
          /\ file_names' = [file_names EXCEPT !.gs_file_name = Name(f.name)]
    /\ \E c \in {{}, {"process_grading_scheme_pdf"}} : called' = c
    /\ UNCHANGED <<pc, grading_results, summary>>
    /\ UNCHANGED GradingLocals
    /\ UNCHANGED OcrVars
    /\ UNCHANGED SessionInputs

\* lines 271-292: the widget is empty, or its file has the recorded name
GradingSchemeSkip ==
    /\ pc = "materials"
    /\ \E f \in Files \cup {NoFile} :
          /\ ~NeedsProcessing(file_names.gs_file_name, f)
          /\ uploaded' = [uploaded EXCEPT !.grading_scheme = f]
    /\ called' = {}
    /\ UNCHANGED <<pc, file_names, grading_results, summary>>
    /\ UNCHANGED GradingLocals
    /\ UNCHANGED OcrVars
    /\ UNCHANGED SessionInputs

\* lines 306-308: Back
BackButton ==
    /\ pc = "materials"
    /\ pc' = "ocr"
    /\ called' = {}
    /\ UNCHANGED <<uploaded, file_names, grading_results, summary>>
    /\ UNCHANGED GradingLocals
    /\ UNCHANGED OcrVars
    /\ UNCHANGED SessionInputs

NextUpload ==
    \/ OcrPageProcess \/ OcrPageProcessFails \/ OcrPageSkip \/ NextButton
    \/ QuestionPaperProcess \/ QuestionPaperProcessFails \/ QuestionPaperSkip
    \/ GradingSchemeProcess \/ GradingSchemeProcessFails \/ GradingSchemeSkip
    \/ BackButton

SpecUpload == InitUpload /\ [][NextUpload]_vars

(***************************************************************************)
(* Properties of merge_ocr_results                                         *)
(***************************************************************************)
\* the fragments in document order: the items of the list pages
RECURSIVE Flat(_)
Flat(pages) ==
    IF pages = <<>> THEN <<>>
    ELSE (IF Head(pages).isList THEN Head(pages).items ELSE <<>>) \o Flat(Tail(pages))

\* the page (index in all_ocr_results) that holds fragment j of Flat
RECURSIVE PageOf(_, _, _)
PageOf(pages, j, p) ==
    IF Head(pages).isList /\ j <= Len(Head(pages).items) THEN p
    ELSE PageOf(Tail(pages),
                j - (IF Head(pages).isList THEN Len(Head(pages).items) ELSE 0), p + 1)

FragLabel(item) == PyStr(Get(item, "question_number", JStr("Unknown")))
FragText(item) == Get(item, "answer", "No answer extracted")
IsMarker(label) == label \in {"Contd", "contd", "CONTD"}

Frags == Flat(all_ocr_results)

\* the accumulator after the first j fragments
After(j) == MergeItems([merged |-> <<>>, last |-> NoLast], SubSeq(Frags, 1, j))

\* positions before j that carry a real (non-marker) label
RealBefore(j) == {h \in 1..(j - 1) : ~IsMarker(FragLabel(Frags[h]))}

Max(S) == CHOOSE x \in S : \A y \in S : y <= x

\* the label of the most recent real fragment before j
RecentLabel(j) == FragLabel(Frags[Max(RealBefore(j))])

Merged == pc = "ocr_done"

\* C5 (as claimed): when the scan starts with continuation fragments, the
\* merged mapping has no key that is the marker, and the marker is not the
\* current label after such a fragment.
C5_LeadingMarkerDropped ==
    (Merged /\ Frags # <<>> /\ IsMarker(FragLabel(Frags[1])))
        => /\ \A j \in 1..Len(merged_answers) : ~IsMarker(merged_answers[j].k)
           /\ ~After(1).last.set

\* C6: a continuation fragment (any letter case) that follows a real label is
\* appended with "\n\n" to the text of the most recent real label, also when
\* that label is on an earlier page, and adds no key.
C6_ContinuationAppends ==
    Merged =>
        /\ merged_answers = After(Len(Frags)).merged
        /\ \A j \in 1..Len(Frags) :
              (IsMarker(FragLabel(Frags[j])) /\ RealBefore(j) # {}) =>
                 LET L == RecentLabel(j)
                     before == After(j - 1).merged
                     after == After(j).merged
                 IN /\ OdHas(before, L)
                    /\ OdKeys(after) = OdKeys(before)
                    /\ \A h \in 1..Len(after) :
                          after[h].v = IF after[h].k = L
                                       THEN before[h].v \o "\n\n" \o FragText(Frags[j])
                                       ELSE before[h].v
        /\ (all_ocr_results =
               << [isList |-> TRUE,
                   items |-> << [question_number |-> JStr("1"), answer |-> "a"],
                                [question_number |-> JStr("Contd"), answer |-> "b"],
                                [question_number |-> JStr("2"), answer |-> "c"] >>] >>
            => merged_answers = << [k |-> "1", v |-> "a\n\nb"], [k |-> "2", v |-> "c"] >>)

\* the example of the specification, merged
C6_Example ==
    /\ Merged
    /\ Len(all_ocr_results) = 1
    /\ merged_answers = << [k |-> "1", v |-> "a\n\nb"], [k |-> "2", v |-> "c"] >>

\* C6 witness: a real label on page 1, a continuation fragment on page 2
C6_Witness ==
    /\ Merged
    /\ \E j \in 2..Len(Frags) :
          /\ IsMarker(FragLabel(Frags[j]))
          /\ RealBefore(j) # {}
          /\ PageOf(all_ocr_results, j, 1) > PageOf(all_ocr_results, Max(RealBefore(j)), 1)
          /\ OdGet(merged_answers, RecentLabel(j), "") # FragText(Frags[Max(RealBefore(j))])

\* C7: a real label that occurs again after a different real label is
\* appended to its existing entry with "\n\n", keeps one key, and becomes the
\* current label, so that a following continuation fragment goes to it.
Reoccurs(j) ==
    /\ ~IsMarker(FragLabel(Frags[j]))
    /\ \E h \in RealBefore(j), m \in RealBefore(j) :
          /\ h < m
          /\ FragLabel(Frags[h]) = FragLabel(Frags[j])
          /\ FragLabel(Frags[m]) # FragLabel(Frags[j])

C7_RepeatedLabelAppends ==
    Merged =>
        \A j \in 1..Len(Frags) :
            Reoccurs(j) =>
                LET L == FragLabel(Frags[j])
                    before == After(j - 1).merged
                    after == After(j).merged
                IN /\ OdKeys(after) = OdKeys(before)
                   /\ Cardinality({h \in 1..Len(merged_answers) : merged_answers[h].k = L}) = 1
                   /\ \A h \in 1..Len(after) :
                         after[h].v = IF after[h].k = L
                                      THEN before[h].v \o "\n\n" \o FragText(Frags[j])
                                      ELSE before[h].v
                   /\ After(j).last = [set |-> TRUE, v |-> L]
                   /\ (j < Len(Frags) /\ IsMarker(FragLabel(Frags[j + 1]))) =>
                         OdGet(After(j + 1).merged, L, "") =
                             OdGet(after, L, "") \o "\n\n" \o FragText(Frags[j + 1])
                   /\ j = Len(Frags) => merged_answers = after

\* C7 witness: label, other label, label again as the last fragment, the
\* occurrences on different pages
C7_Witness ==
    /\ Merged
    /\ Len(Frags) = 3
    /\ Reoccurs(3)
    /\ PageOf(all_ocr_results, 3, 1) > PageOf(all_ocr_results, 1, 1)
    /\ Len(merged_answers) = 2

\* C8: the merged text of every real label is the "\n\n"-join, in document
\* order, of the texts of the fragments attributed to it (its own fragments
\* and the continuation fragments that follow them); every fragment except a
\* leading continuation fragment is in exactly one such text, once; the keys
\* are in first-seen order.
Attributed(L) ==
    {j \in 1..Len(Frags) :
        IF IsMarker(FragLabel(Frags[j]))
        THEN RealBefore(j) # {} /\ RecentLabel(j) = L
        ELSE FragLabel(Frags[j]) = L}

RECURSIVE JoinTexts(_)
JoinTexts(S) ==
    IF S = {} THEN ""
    ELSE LET m == Max(S)
         IN IF S = {m} THEN FragText(Frags[m])
            ELSE JoinTexts(S \ {m}) \o "\n\n" \o FragText(Frags[m])

RECURSIVE FirstSeen(_)
FirstSeen(j) ==
    IF j = 0 THEN <<>>
    ELSE LET p == FirstSeen(j - 1)
             l == FragLabel(Frags[j])
         IN IF IsMarker(l) \/ (\E h \in 1..Len(p) : p[h] = l) THEN p ELSE Append(p, l)

IsRealEntry(e) == ~IsMarker(e.k)

C8_MergedTextIsOrderedJoin ==
    Merged =>
        LET real == SelectSeq(merged_answers, IsRealEntry)
        IN /\ OdKeys(real) = FirstSeen(Len(Frags))
           /\ \A h \in 1..Len(real) : real[h].v = JoinTexts(Attributed(real[h].k))
           /\ \A j \in 1..Len(Frags) :
                 (~IsMarker(FragLabel(Frags[j])) \/ RealBefore(j) # {}) =>
                    Cardinality({h \in 1..Len(real) : j \in Attributed(real[h].k)}) = 1

\* C8 witness: two real labels over two pages, one of them with two fragments,
\* a continuation fragment among the three
C8_Witness ==
    /\ Merged
    /\ Len(all_ocr_results) = 2
    /\ Len(Frags) = 3
    /\ \E L \in {"1", "2"} : Cardinality(Attributed(L)) = 2
    /\ \E j \in 2..3 : IsMarker(FragLabel(Frags[j]))
    /\ PageOf(all_ocr_results, 3, 1) = 2
    /\ PageOf(all_ocr_results, 1, 1) = 1
    /\ Len(SelectSeq(merged_answers, IsRealEntry)) = 2

(***************************************************************************)
(* Properties of prepare_grading_data                                      *)
(***************************************************************************)
QuestionLabel(question) == PyStr(Get(question, "question_number", JStr("")))
HasLabel(question) == QuestionLabel(question) # ""

\* the question-paper entries that carry a question number, in paper order
Labelled == SelectSeq(question_paper_json.items, HasLabel)

RequestLabels(reqs) == [j \in 1..Len(reqs) |-> reqs[j].question_num]
PaperLabels == [j \in 1..Len(Labelled) |-> JStr(QuestionLabel(Labelled[j]))]

Perms(n) == {f \in [1..n -> 1..n] : \A a, b \in 1..n : a # b => f[a] # f[b]}
Permute(seq, f) == [j \in 1..Len(seq) |-> seq[f[j]]]

Prepared == pc = "prepared" /\ ~grading_data.isNone

\* C4: the labels of the requests are the labels of the question paper, in
\* paper order, whatever the order of the grading-scheme list and whatever
\* the insertion order of the merged answers.
C4_RequestOrderIsPaperOrder ==
    Prepared =>
        /\ RequestLabels(grading_data.v) = PaperLabels
        /\ \A f \in Perms(Len(grading_scheme_json.items)),
              g \in Perms(Len(merged_answers)) :
              RequestLabels(
                  prepare_grading_data(question_paper_json,
                                       AsList(Permute(grading_scheme_json.items, f)),
                                       Permute(merged_answers, g), user_notes).v)
                  = PaperLabels

\* C4 witness: two questions, with the scheme list and the answer mapping both
\* in the opposite order
C4_Witness ==
    /\ Prepared
    /\ Len(grading_data.v) = 2
    /\ Len(grading_scheme_json.items) = 2
    /\ Len(merged_answers) = 2
    /\ grading_data.v[1].question_num # grading_data.v[2].question_num
    /\ JStr(merged_answers[1].k) = grading_data.v[2].question_num
    /\ JStr(merged_answers[2].k) = grading_data.v[1].question_num
    /\ "question_number" \in DOMAIN grading_scheme_json.items[1]
    /\ "question_number" \in DOMAIN grading_scheme_json.items[2]
    /\ JStr(PyStr(grading_scheme_json.items[1].question_number)) = grading_data.v[2].question_num
    /\ JStr(PyStr(grading_scheme_json.items[2].question_number)) = grading_data.v[1].question_num

SchemeHas(L) ==
    \E j \in 1..Len(grading_scheme_json.items) :
        PyStr(Get(grading_scheme_json.items[j], "question_number", JNone)) = L

AnswersHave(L) == \E j \in 1..Len(merged_answers) : merged_answers[j].k = L

\* C9: a question whose label has no grading-scheme entry and/or no merged
\* answer still gets its request, with grading_scheme = "" and/or
\* student_answer = "".
C9_MissingSchemeOrAnswerIsEmpty ==
    Prepared =>
        /\ Len(grading_data.v) = Len(Labelled)
        /\ \A j \in 1..Len(Labelled) :
              LET L == QuestionLabel(Labelled[j])
                  req == grading_data.v[j]
              IN /\ req.question_num = JStr(L)
                 /\ ~SchemeHas(L) => req.grading_scheme = ""
                 /\ ~AnswersHave(L) => req.student_answer = ""

\* C9 witness: a question with neither scheme nor answer next to one with both
C9_Witness ==
    /\ Prepared
    /\ Len(grading_scheme_json.items) > 0
    /\ Len(merged_answers) > 0
    /\ \E j \in 1..Len(grading_data.v) :
          /\ ~SchemeHas(PyStr(grading_data.v[j].question_num))
          /\ ~AnswersHave(PyStr(grading_data.v[j].question_num))
          /\ grading_data.v[j].grading_scheme = ""
          /\ grading_data.v[j].student_answer = ""
    /\ \E j \in 1..Len(grading_data.v) :
          /\ grading_data.v[j].grading_scheme # ""
          /\ grading_data.v[j].student_answer # ""

(***************************************************************************)
(* Properties of the grading loop                                          *)
(***************************************************************************)
Graded == pc = "grading_shown"

\* the value grade_answer returned in iteration j is carried by result r
Carries(r, j) ==
    /\ grade_answer(outcomes[j]).isDict
    /\ \A k \in DOMAIN grade_answer(outcomes[j]).d :
          k \in DOMAIN r /\ r[k] = grade_answer(outcomes[j]).d[k]

IsPlaceholder(r) ==
    /\ "marks_awarded" \in DOMAIN r /\ r.marks_awarded = 0
    /\ "error" \in DOMAIN r

\* C1 (as claimed): N requests give N results; the result of a request on
\* which grade_answer raised has marks_awarded = 0 and an error; every other
\* result carries what grade_answer returned.
C1_RaiseIsolated_AsClaimed ==
    Graded =>
        /\ Len(grading_results.v) = Len(grading_data.v)
        /\ \A j \in 1..Len(grading_results.v) :
              IF outcomes[j].kind = "raise"
              THEN IsPlaceholder(grading_results.v[j])
              ELSE Carries(grading_results.v[j], j)

\* the iteration failed inside the try: grade_answer raised, or what it
\* returned is not a JSON object
Failed(j) == outcomes[j].kind = "raise" \/ ~grade_answer(outcomes[j]).isDict

\* C1 (amended): every iteration appends one result; N requests give N
\* results in the session; the result of a request on which grade_answer
\* raised or returned a value that is not a JSON object has marks_awarded = 0
\* and an error next to the request's fields; every other result carries
\* what grade_answer returned, and the request's fields under the other keys.
C1_FailureIsolated ==
    /\ pc \in {"grading_loop", "grading_shown"} => Len(results) = Len(outcomes)
    /\ Graded =>
        /\ Len(grading_results.v) = Len(grading_data.v)
        /\ \A j \in 1..Len(grading_results.v) :
              LET r == grading_results.v[j]
                  req == grading_data.v[j]
              IN IF Failed(j)
                 THEN /\ IsPlaceholder(r)
                      /\ \A k \in DOMAIN req : k \in DOMAIN r /\ r[k] = req[k]
                 ELSE /\ Carries(r, j)
                      /\ \A k \in (DOMAIN req) \ (DOMAIN grade_answer(outcomes[j]).d) :
                            k \in DOMAIN r /\ r[k] = req[k]

\* C1 witness: two requests, the first fails, the second returns a payload
C1_Witness ==
    /\ Graded
    /\ Len(grading_data.v) = 2
    /\ outcomes[1].kind = "raise"
    /\ outcomes[2].kind = "dict"
    /\ grading_results.v[2].marks_awarded = 5

\* C2 (as claimed): the question label stored in results[i] is the label of
\* requests[i], whatever payload grade_answer returned.
C2_ResultLabelIsRequestLabel ==
    Graded =>
        \A j \in 1..Len(grading_results.v) :
            /\ j <= Len(grading_data.v)
            /\ grading_results.v[j].question_num = grading_data.v[j].question_num

\* C3 (as claimed): number of question-paper entries = number of requests =
\* number of results.
C3_OnePerQuestion_AsClaimed ==
    Graded =>
        /\ Len(grading_data.v) = Len(question_paper_json.items)
        /\ Len(grading_results.v) = Len(question_paper_json.items)

\* C3 (amended): with question paper and grading scheme both lists, the
\* entries that carry a non-empty question number give one request and one
\* result each, in order, and the other entries are skipped; when no entry
\* carries a question number nothing is graded and no results are stored.
C3_OnePerLabelledQuestion ==
    /\ Graded =>
          /\ Len(Labelled) > 0
          /\ RequestLabels(grading_data.v) = PaperLabels
          /\ Len(grading_results.v) = Len(Labelled)
    /\ (pc = "grading_error" /\ question_paper_json.isList /\ grading_scheme_json.isList) =>
          /\ Len(Labelled) = 0
          /\ ~grading_results.has

\* C3 witness: a paper of two entries, one of them without question number
C3_Witness ==
    /\ Graded
    /\ Len(question_paper_json.items) = 2
    /\ Len(Labelled) = 1
    /\ Len(grading_results.v) = 1

\* C10 (as claimed): the result of a request whose response was not valid
\* JSON has marks_awarded = 0, the placeholder explanation and an error.
C10_UnparsableIsZeroMarkResult ==
    Graded =>
        \A j \in 1..Len(grading_results.v) :
            outcomes[j].kind = "invalid" =>
                /\ IsPlaceholder(grading_results.v[j])
                /\ "explanation" \in DOMAIN grading_results.v[j]
                /\ grading_results.v[j].explanation = "Error during grading"

(***************************************************************************)
(* Properties of the score summary                                         *)
(***************************************************************************)
RECURSIVE SumMarks(_)
SumMarks(reqs) == IF reqs = <<>> THEN 0 ELSE Head(reqs).marks + SumMarks(Tail(reqs))

\* C11 (as claimed): total possible is the sum of the marks of the questions
\* as copied into the requests, total awarded the sum of marks_awarded over
\* the results, whatever grade_answer returned.
C11_TotalsFromRequestsAndResults ==
    (Graded /\ summary.shown) =>
        /\ summary.possible = SumMarks(grading_data.v)
        /\ summary.awarded = SumField(grading_results.v, "marks_awarded")

\* C12: a total possible of 0 gives percentage 0 and no division by zero.
C12_ZeroPossibleGivesZeroPercent ==
    (summary.shown /\ summary.possible = 0) =>
        /\ summary.percentage.ok
        /\ summary.percentage.num = 0
        /\ summary.percentage.den # 0

\* C12 witness: a summary over questions worth 0 marks, with marks awarded
C12_Witness ==
    /\ Graded
    /\ summary.shown
    /\ summary.possible = 0
    /\ summary.awarded > 0

\* every call returned a payload whose marks_awarded is the request's marks
AllFullMarks ==
    \A j \in 1..Len(grading_data.v) :
        /\ j <= Len(outcomes)
        /\ outcomes[j].kind = "dict"
        /\ "marks_awarded" \in DOMAIN outcomes[j].d
        /\ outcomes[j].d.marks_awarded = grading_data.v[j].marks

\* C13 (as claimed): with a question of positive marks and every call
\* returning marks_awarded = the request's marks, awarded = possible and the
\* percentage is 100.
C13_FullMarksGiveHundredPercent ==
    (Graded /\ AllFullMarks /\ \E j \in 1..Len(grading_data.v) : grading_data.v[j].marks > 0) =>
        /\ summary.shown
        /\ summary.awarded = summary.possible
        /\ summary.percentage.ok
        /\ summary.percentage.num = 100 * summary.percentage.den

\* C14 (as claimed): after a stop of the run with k > 0 of N requests
\* completed, the k results are in the session.
C14_PartialResultsSurviveAbort ==
    (pc = "grading_aborted" /\ Len(outcomes) > 0) =>
        /\ grading_results.has
        /\ Len(grading_results.v) = Len(outcomes)

(***************************************************************************)
(* Properties of the prerequisites of grading                              *)
(***************************************************************************)
AfterPrepare == pc \in {"grading_error", "grading_loop", "grading_shown"}

C15_EmptySchemeGraded ==
    /\ Graded
    /\ grading_scheme_json.isList /\ grading_scheme_json.items = <<>>
    /\ Len(grading_results.v) = 2

NoPaper ==
    \/ ~question_paper_json.has
    \/ ~question_paper_json.isList
    \/ question_paper_json.items = <<>>

\* C16: without question-paper data (absent, not a list, or an empty list)
\* the evaluator is never invoked, no results are stored, no summary is
\* shown, and the only outcome is the error message.
C16_NoPaperIsSingleFailure ==
    NoPaper =>
        /\ outcomes = <<>>
        /\ results = <<>>
        /\ ~grading_results.has
        /\ ~summary.shown
        /\ pc \in {"materials", "materials_error", "grading_start", "grading_error"}
        /\ (pc = "materials_error") <=> (pc # "materials" /\ ~question_paper_json.has)

\* C16 witness: the error of the grading page for an empty question list
C16_Witness ==
    /\ pc = "grading_error"
    /\ question_paper_json.isList
    /\ question_paper_json.items = <<>>
    /\ grading_scheme_json.isList
    /\ ~grading_data.isNone

\* C17 (as claimed): a question without marks gets the documented fallback
\* of 10 marks; marks that are present are copied unchanged.
C17_MissingMarksDefaultToTen ==
    Prepared =>
        \A j \in 1..Len(Labelled) :
            /\ j <= Len(grading_data.v)
            /\ grading_data.v[j].marks =
                  IF "marks" \in DOMAIN Labelled[j] THEN Labelled[j].marks
                  ELSE DocumentedDefaultMarks

(***************************************************************************)
(* Properties of the progress indicator                                    *)
(***************************************************************************)
\* C19: the progress indicator is updated once per completed request,
\* failed or not, with done = 1, 2, ..., never more than N.
C19_ProgressOncePerRequest ==
    pc \in {"grading_loop", "grading_shown", "grading_aborted"} =>
        /\ Len(progress) = Len(outcomes)
        /\ Len(progress) <= Len(grading_data.v)
        /\ \A j \in 1..Len(progress) :
              progress[j] = [done |-> j, total |-> Len(grading_data.v)]
        /\ Graded => Len(progress) = Len(grading_data.v)

\* C19 witness: two requests, one substituted after a failure, one graded
C19_Witness ==
    /\ Graded
    /\ Len(progress) = 2
    /\ Failed(1)
    /\ ~Failed(2)
    /\ progress[2].done = 2

(***************************************************************************)
(* Properties of a second submission                                       *)
(***************************************************************************)
\* C20 (as claimed): the results on the grading page are those of the data
\* now in the session: the requests assembled from it, one result each.
C20_ResultsAreOfCurrentData ==
    (pc = "grading_shown" /\ grading_results.has) =>
        LET cur == prepare_grading_data(question_paper_json, grading_scheme_json,
                                        merged_answers, user_notes)
        IN /\ ~NoRequests(cur)
           /\ Len(grading_results.v) = Len(cur.v)
           /\ \A j \in 1..Len(cur.v) :
                 \A k \in {"question", "student_answer", "grading_scheme"} :
                     grading_results.v[j][k] = cur.v[j][k]

(***************************************************************************)
(* Properties of the labels of merge_ocr_results                           *)
(***************************************************************************)
KeySet == {merged_answers[j].k : j \in 1..Len(merged_answers)}

\* the marker test the claim describes: on the stripped label
IsStrippedMarker(l) == Lower(Strip(l)) = "contd"

\* C18 (as claimed): labels are trimmed before use: no two keys differ only
\* by leading or trailing blanks, every key is trimmed, and after a first
\* real fragment a marker surrounded by blanks is a continuation, not a key.
C18_LabelsTrimmed_AsClaimed ==
    (Merged /\ Frags # <<>> /\ ~IsStrippedMarker(FragLabel(Frags[1]))) =>
        /\ \A k \in KeySet : Strip(k) = k
        /\ \A k \in KeySet : ~IsStrippedMarker(k)
        /\ KeySet = {Strip(FragLabel(Frags[j])) :
                        j \in {h \in 1..Len(Frags) : ~IsStrippedMarker(FragLabel(Frags[h]))}}

\* C18 (amended): labels are not trimmed. The keys of the merged mapping are
\* exactly the str() of the labels, blanks included, of the fragments that
\* are not continuations; a fragment after the first is a continuation
\* exactly when lower() of its untrimmed label is "contd".
C18_LabelsExactNoTrim ==
    Merged =>
        KeySet = {FragLabel(Frags[j]) :
                     j \in {h \in 1..Len(Frags) : h = 1 \/ ~IsMarker(FragLabel(Frags[h]))}}

\* C18 witness: "1" and " 1" are two keys, and " Contd " after them is a
\* third key
C18_Witness ==
    /\ Merged
    /\ Len(Frags) = 3
    /\ KeySet = {"1", " 1", " Contd "}
    /\ FragLabel(Frags[3]) = " Contd "

(***************************************************************************)
(* Properties of failed pages                                              *)
(***************************************************************************)
\* the pages of the PDF whose OCR call returned, in page order
GoodPdfPages == {p \in 1..total_pages : p \notin page_errors}

\* the page of the PDF that entry k of all_ocr_results comes from
PdfPage(k) ==
    CHOOSE p \in GoodPdfPages : Cardinality({q \in GoodPdfPages : q <= p}) = k

\* the pages whose OCR call raised or returned a value that is not a list
FailedPages ==
    page_errors \cup
    {PdfPage(k) : k \in {h \in 1..Len(all_ocr_results) : ~all_ocr_results[h].isList}}

FragPdfPage(j) == PdfPage(PageOf(all_ocr_results, j, 1))

\* fragment j is the first fragment after a failed page
AfterFailedPage(j) ==
    /\ j > 1
    /\ \E p \in FailedPages : FragPdfPage(j - 1) < p /\ p < FragPdfPage(j)

\* C21: a page whose OCR call raised adds no entry to the list of page
\* results and a page that is not a list adds no fragment; the merged mapping
\* is the merge of the fragments of the good pages in order; a continuation
\* fragment that comes first after a failed page is appended to the last
\* real label seen before that page and adds no key.
C21_FailedPageKeepsLabel ==
    Merged =>
        /\ Len(all_ocr_results) + Cardinality(page_errors) = total_pages
        /\ merged_answers = After(Len(Frags)).merged
        /\ \A j \in 1..Len(Frags) :
              (AfterFailedPage(j) /\ IsMarker(FragLabel(Frags[j])) /\ RealBefore(j) # {}) =>
                 LET L == RecentLabel(j)
                     before == After(j - 1).merged
                     after == After(j).merged
                 IN /\ OdHas(before, L)
                    /\ OdKeys(after) = OdKeys(before)
                    /\ OdGet(after, L, "") =
                          OdGet(before, L, "") \o "\n\n" \o FragText(Frags[j])
                    /\ OdHas(merged_answers, L)

\* C21 witness: page 1 gives label 1, the OCR call of page 2 raised, page 3
\* gives a continuation fragment, which is appended to label 1
C21_Witness ==
    /\ Merged
    /\ total_pages = 3
    /\ page_errors = {2}
    /\ Len(Frags) = 2
    /\ FragLabel(Frags[1]) = "1"
    /\ AfterFailedPage(2)
    /\ merged_answers = <<[k |-> "1", v |-> "a\n\nb"]>>

\* the same with a page 2 whose OCR result is not a list, and a page 3 that
\* is merged after it
C21_NotListPageBetween ==
    /\ Merged
    /\ page_errors = {}
    /\ Len(all_ocr_results) = 3
    /\ ~all_ocr_results[2].isList
    /\ Len(Frags) = 3
    /\ AfterFailedPage(2)
    /\ merged_answers = <<[k |-> "1", v |-> "a\n\nb"], [k |-> "2", v |-> "c"]>>

(***************************************************************************)
(* Properties of the upload pages                                          *)
(***************************************************************************)
\* the file in a widget has the name recorded for the widget
SameName(recorded, f) == f.has /\ recorded.set /\ recorded.v = f.name

\* a run finds in a widget a file whose name differs from the recorded one
NewName(recorded, f) == f.has /\ ~SameName(recorded, f)

\* C22: a run in which the file of a widget has the name recorded before
\* the run calls no OCR or extraction function for the widget and leaves the
\* recorded names and the widget's session data unchanged, whatever the
\* file's content and whether or not the earlier processing stored anything;
\* a run that finds a file with another name records the name, also when
\* the processing stores nothing.
C22_SameNameNeverReprocessed ==
    [][ /\ SameName(file_names.current_file_name, uploaded'.main_pdf) =>
              /\ "ocr_image" \notin called'
              /\ merged_answers' = merged_answers
              /\ file_names'.current_file_name = file_names.current_file_name
        /\ SameName(file_names.qp_file_name, uploaded'.question_paper) =>
              /\ "process_question_paper_pdf" \notin called'
              /\ question_paper_json' = question_paper_json
              /\ file_names'.qp_file_name = file_names.qp_file_name
        /\ SameName(file_names.gs_file_name, uploaded'.grading_scheme) =>
              /\ "process_grading_scheme_pdf" \notin called'
              /\ grading_scheme_json' = grading_scheme_json
              /\ file_names'.gs_file_name = file_names.gs_file_name
        /\ NewName(file_names.current_file_name, uploaded'.main_pdf) =>
              file_names'.current_file_name = Name(uploaded'.main_pdf.name)
        /\ NewName(file_names.qp_file_name, uploaded'.question_paper) =>
              file_names'.qp_file_name = Name(uploaded'.question_paper.name)
        /\ NewName(file_names.gs_file_name, uploaded'.grading_scheme) =>
              file_names'.gs_file_name = Name(uploaded'.grading_scheme.name)
      ]_vars

\* C22 witness: the processing of the answer booklet and of the question
\* paper failed before anything was stored, another file with the recorded
\* name was chosen for the question paper, and the runs after that (Next
\* among them) have left the session without merged answers and question
\* paper
C22_Witness ==
    /\ pc = "materials"
    /\ SameName(file_names.current_file_name, uploaded.main_pdf)
    /\ merged_answers = <<>>
    /\ SameName(file_names.qp_file_name, uploaded.question_paper)
    /\ uploaded.question_paper.content = 2
    /\ ~question_paper_json.has
    /\ called = {}

====
